---- MODULE Spec2Model ----
(***************************************************************************)
(* Model of ref/old/computer.py (ComputerController) and ref/old/collect.py *)
(* (main): a polling thread that captures the screen every                  *)
(* screenshot_interval seconds and polls the click flag, and the pynput     *)
(* listener thread that runs ComputerController._on_click for every mouse   *)
(* button event.  The two threads share the flag self.clicked and the file  *)
(* data/images/screenshot.jpg.                                              *)
(*                                                                         *)
(* Time is the wall clock in whole milliseconds.  Every statement of the    *)
(* two threads that reads or writes shared state (the flag, the clock, the  *)
(* two directories) is one action, so that the threads interleave between   *)
(* any two of them.  The run is followed up to Ctrl+C (collect.py lines     *)
(* 44-45), which ends both threads.  The environment can fail a screen      *)
(* capture, an os.rename and a record write.                                *)
(*                                                                         *)
(* Spec follows the run while the clock of the model advances; FairSpec     *)
(* lets the polling loop go on after that, under weak fairness of its steps *)
(* (the loop keeps running), for what must eventually happen.               *)
(***************************************************************************)
EXTENDS Integers, Sequences, FiniteSets, TLC

\* ---------------------------------------------------------------- bounds
\* the clock at start-up (time.time() is the epoch time, far above the interval)
StartTime == 1000
\* the run is observed for this many milliseconds
MaxElapsed == 500
\* the clock is observed at this granularity
TickSteps == {250}
\* left-button presses delivered to the listener
MaxClicks == 2
\* failures of the environment (screen capture, os.rename, record write)
MaxFaults == 2
\* pointer positions (x, y) of the k-th press: every press is at another place
Positions(k) == {<<k, 10 + k>>}

\* ------------------------------------------------------ program constants
\* collect.py: screenshot_interval=0.5 (seconds), in milliseconds
screenshot_interval == 500
\* collect.py: time.sleep(0.01), in milliseconds
SleepMs == 10

None == <<"None", 0>>
generic_screenshot_path == <<"screenshot.jpg", 0>>
NoArg == <<"missing", 0>>

VARIABLES
  now,                   \* wall clock, ms
  clicked,               \* self.clicked
  last_screenshot_time,  \* self.last_screenshot_time
  images,                \* data/images: path -> [id, complete]
  text,                  \* data/text: example_<ms>.json -> [url, label]
  dpc,                   \* polling thread: position in main()
  current_time,          \* main: current_time
  screenshot_path,       \* main: value returned by take_screenshot()
  wfd,                   \* take_screenshot: id of the image being written, 0 if none
  wake,                  \* time.sleep: earliest wake-up time
  lpc,                   \* listener thread: position in _on_click
  cur,                   \* _on_click: x, y, timestamp of the press being handled
                         \* (or handled last), and the history of its handling
  presses,               \* history: number of left-button presses handled
  captures,              \* history: number of screenshot.jpg writes started
  call,                  \* history: the last was_clicked call
  reports,               \* history: number of "Click recorded at ..." lines printed
  others,                \* history: the event delivered last was not a left-button
                         \* press (a release, or another button)
  faults                 \* history: number of failures of the environment so far

vars == <<now, clicked, last_screenshot_time, images, text, dpc, current_time,
          screenshot_path, wfd, wake, lpc, cur, presses, captures, call,
          reports, others, faults>>

\* ------------------------------------------------------------ pure parts

\* a variant of should_take_screenshot: the interval must be exceeded
should_take_strict(t, last, interval) == t - last > interval

\* should_take_screenshot
should_take_screenshot(t, last, interval) == t - last >= interval

\* a variant of line 67: the button is not looked at
IsAnyPress(button, pressed) == pressed

\* _on_click line 67: button.name == 'left' and pressed
IsLeftPress(button, pressed) == button = "left" /\ pressed

\* a variant of lines 67-68: the flag follows the left button (self.clicked = pressed)
FlagFollowsButton(button, pressed, old) ==
  IF button = "left" THEN pressed ELSE old

\* a variant of lines 67-68: the flag is set outside the test, for every event
FlagOnAnyEvent(button, pressed, old) == TRUE

\* _on_click lines 67-68: the flag after an event
FlagAfterEvent(button, pressed, old) ==
  IF IsLeftPress(button, pressed) THEN TRUE ELSE old

\* a variant of lines 71-72: the new path is built without the timestamp
new_screenshot_path_untimed(ts) == <<"screenshot.jpg", 0>>

\* _on_click lines 71-72: screenshot_<timestamp to the millisecond>.jpg
new_screenshot_path(ts) == <<"screenshot_.jpg", ts>>

\* a variant of line 109: f"{y},{x}"
LabelSwapped(x, y) == ToString(y) \o "," \o ToString(x)

\* save_click_data line 109: f"{x},{y}"
Label(x, y) == ToString(x) \o "," \o ToString(y)

\* save_click_data lines 90-112: the example
Example(x, y, path) == [url |-> path, label |-> Label(x, y)]

\* os.path.exists
Exists(fs, p) == p \in DOMAIN fs

\* a variant of os.rename: a copy, the name src stays
RenameKeepsSource(fs, src, dst) ==
  [q \in DOMAIN fs \cup {dst} |-> IF q = dst THEN fs[src] ELSE fs[q]]

\* os.rename: the name src goes away, dst names the file (replacing any file there)
Rename(fs, src, dst) ==
  [q \in (DOMAIN fs \ {src}) \cup {dst} |-> IF q = dst THEN fs[src] ELSE fs[q]]

\* open(path, "w") followed by a write: the file holds exactly the new content
WriteFile(fs, p, content) ==
  [q \in DOMAIN fs \cup {p} |-> IF q = p THEN content ELSE fs[q]]

Empty == [q \in {} |-> 0]

\* the environment fails an operation
Fail == faults < MaxFaults /\ faults' = faults + 1

\* an exception that leaves main() ends the process
Running == dpc # "crashed"

\* no record written
NoRecord == [url |-> None, label |-> ""]

\* history of a press: found, rename, werr, recs, end tell what lines 76, 78,
\* 116-117 did and how the callback ended; moved is the image that line 78
\* renamed; rec is the example record the press wrote and file its
\* example_<ms>.json; cap: a capture started since the press; prevMoved,
\* quiet: the press before this one found and renamed the transient file, and
\* no capture started since then; btw: the press is the first, it came after
\* exactly one capture, which had succeeded, and no capture started while its
\* callback ran; nfound: the presses so far that found the transient file;
\* later: a capture started after the callback of the press had ended
NoPress == [x |-> 0, y |-> 0, ts |-> 0, found |-> "?", rename |-> "none",
            werr |-> 0, recs |-> 0, end |-> "none", cap |-> FALSE, moved |-> 0,
            prevMoved |-> FALSE, quiet |-> FALSE, rec |-> NoRecord, file |-> 0,
            btw |-> FALSE, nfound |-> 0, later |-> FALSE]

\* history of a was_clicked call: the flag when it began, what it returned,
\* whether a press set the flag since it began; and of the call before it:
\* the flag when that one began, what it returned, and whether no press set
\* the flag from then until this call
NoCall == [flag0 |-> FALSE, ret |-> FALSE, hit |-> TRUE,
           pflag |-> FALSE, pret |-> FALSE, pquiet |-> FALSE]

Init ==
  /\ now = StartTime
  /\ clicked = FALSE
  /\ last_screenshot_time = 0
  /\ images = Empty
  /\ text = Empty
  /\ dpc = "loop"
  /\ current_time = 0
  /\ screenshot_path = None
  /\ wfd = 0
  /\ wake = 0
  /\ lpc = "idle"
  /\ cur = NoPress
  /\ presses = 0
  /\ captures = 0
  /\ call = NoCall
  /\ reports = 0
  /\ others = FALSE
  /\ faults = 0

\* ------------------------------------------------------------ environment
\* the clock is followed up to the end of the observed run; beyond it time
\* goes on unobserved
Horizon == StartTime + MaxElapsed

\* the clock has reached its last observed value
ClockStopped(t) == \A d \in TickSteps : t + d > Horizon

\* the wall clock advances
Tick ==
  /\ Running
  /\ \E d \in TickSteps :
       /\ now + d <= Horizon
       /\ now' = now + d
  /\ UNCHANGED <<clicked, last_screenshot_time, images, text, dpc, current_time,
                 screenshot_path, wfd, wake, lpc, cur, presses, captures, call,
                 reports, others, faults>>

\* ---------------------------------------------------- polling thread: main
\* collect.py line 28: current_time = time.time()
LoopTop ==
  /\ dpc = "loop"
  /\ current_time' = now
  /\ dpc' = "should"
  /\ UNCHANGED <<now, clicked, last_screenshot_time, images, text,
                 screenshot_path, wfd, wake, lpc, cur, presses, captures, call,
                 reports, others, faults>>

\* collect.py line 31: if controller.should_take_screenshot(current_time)
ShouldTake ==
  /\ dpc = "should"
  /\ dpc' = IF should_take_screenshot(current_time, last_screenshot_time,
                                      screenshot_interval)
            THEN "capture" ELSE "was_clicked"
  /\ UNCHANGED <<now, clicked, last_screenshot_time, images, text, current_time,
                 screenshot_path, wfd, wake, lpc, cur, presses, captures, call,
                 reports, others, faults>>

\* history: a capture started
MarkCapture(c, l) == [c EXCEPT !.cap = TRUE, !.quiet = FALSE,
                               !.btw = @ /\ l \in {"idle", "stopped"},
                               !.later = c.end \notin {"none", "running"}]

\* take_screenshot lines 141-157: grab, convert, resize, and img.save opens
\* screenshot.jpg for writing: the file exists from here on, not yet complete
CaptureOpen ==
  /\ dpc = "capture"
  /\ captures' = captures + 1
  /\ wfd' = captures'
  /\ images' = WriteFile(images, generic_screenshot_path,
                         [id |-> captures', complete |-> FALSE])
  /\ cur' = MarkCapture(cur, lpc)
  /\ dpc' = "saving"
  /\ UNCHANGED <<now, clicked, last_screenshot_time, text, current_time,
                 screenshot_path, wake, lpc, presses, call, reports, others, faults>>

\* the image file being written: the open file follows a rename of its name
CompleteWrite(fs, id) ==
  [q \in DOMAIN fs |-> IF fs[q].id = id THEN [id |-> id, complete |-> TRUE]
                                        ELSE fs[q]]

\* a variant of collect.py lines 33-34: the time is marked whatever
\* take_screenshot returned
update_screenshot_time_always(ret, t, last) == t

\* collect.py lines 33-34: if screenshot_path: update_screenshot_time(current_time)
update_screenshot_time(ret, t, last) == IF ret # None THEN t ELSE last

\* take_screenshot lines 157-159: img.save finishes, return screenshot_path;
\* collect.py lines 32-34
CaptureDone ==
  /\ dpc = "saving"
  /\ images' = CompleteWrite(images, wfd)
  /\ wfd' = 0
  /\ screenshot_path' = generic_screenshot_path
  /\ last_screenshot_time' =
       update_screenshot_time(screenshot_path', current_time, last_screenshot_time)
  /\ dpc' = "was_clicked"
  /\ UNCHANGED <<now, clicked, text, current_time, wake, lpc, cur, presses,
                 captures, call, reports, others, faults>>

\* a variant of take_screenshot without lines 160-162: the exception leaves
\* take_screenshot and main
CaptureFailRaises ==
  /\ dpc \in {"capture", "saving"}
  /\ Fail
  /\ wfd' = 0
  /\ dpc' = "crashed"
  /\ UNCHANGED <<now, clicked, last_screenshot_time, images, text, current_time,
                 screenshot_path, wake, lpc, cur, presses, captures, call,
                 reports, others>>

\* take_screenshot lines 160-162: any exception in the try block (the grab,
\* the conversion, the open or the write) is printed and None is returned;
\* collect.py lines 32-34
CaptureFail ==
  /\ dpc \in {"capture", "saving"}
  /\ Fail
  /\ wfd' = 0
  /\ screenshot_path' = None
  /\ last_screenshot_time' =
       update_screenshot_time(screenshot_path', current_time, last_screenshot_time)
  /\ dpc' = "was_clicked"
  /\ UNCHANGED <<now, clicked, images, text, current_time, wake, lpc, cur,
                 presses, captures, call, reports, others>>

\* a variant of was_clicked: the flag is cleared before it is read
WasClickedReadCleared ==
  /\ dpc = "was_clicked"
  /\ clicked' = FALSE
  /\ call' = [flag0 |-> clicked, ret |-> FALSE, hit |-> FALSE,
               pflag |-> call.flag0, pret |-> call.ret, pquiet |-> ~call.hit]
  /\ dpc' = "sleep"
  /\ UNCHANGED <<now, last_screenshot_time, images, text, current_time,
                 screenshot_path, wfd, wake, lpc, cur, presses, captures,
                 reports, others, faults>>

\* was_clicked line 125: if self.clicked  (line 128: return False)
WasClickedRead ==
  /\ dpc = "was_clicked"
  /\ call' = [flag0 |-> clicked, ret |-> clicked, hit |-> FALSE,
               pflag |-> call.flag0, pret |-> call.ret, pquiet |-> ~call.hit]
  /\ dpc' = IF clicked THEN "clear" ELSE "sleep"
  /\ UNCHANGED <<now, clicked, last_screenshot_time, images, text, current_time,
                 screenshot_path, wfd, wake, lpc, cur, presses, captures,
                 reports, others, faults>>

\* a variant of was_clicked without line 126: return True, the flag stays set
WasClickedKeepsFlag ==
  /\ dpc = "clear"
  /\ dpc' = "report"
  /\ UNCHANGED <<now, clicked, last_screenshot_time, images, text, current_time,
                 screenshot_path, wfd, wake, lpc, cur, presses, captures, call,
                 reports, others, faults>>

\* was_clicked lines 126-127: self.clicked = False; return True
WasClickedClear ==
  /\ dpc = "clear"
  /\ clicked' = FALSE
  /\ dpc' = "report"
  /\ UNCHANGED <<now, last_screenshot_time, images, text, current_time,
                 screenshot_path, wfd, wake, lpc, cur, presses, captures, call,
                 reports, others, faults>>

\* collect.py lines 39-40: x, y = controller.get_mouse_position(); print(...)
Report ==
  /\ dpc = "report"
  /\ reports' = reports + 1
  /\ dpc' = "sleep"
  /\ UNCHANGED <<now, clicked, last_screenshot_time, images, text, current_time,
                 screenshot_path, wfd, wake, lpc, cur, presses, captures, call,
                 others, faults>>

\* collect.py line 43: time.sleep(0.01) starts
Sleep ==
  /\ dpc = "sleep"
  /\ wake' = now + SleepMs
  /\ dpc' = "asleep"
  /\ UNCHANGED <<now, clicked, last_screenshot_time, images, text, current_time,
                 screenshot_path, wfd, lpc, cur, presses, captures, call,
                 reports, others, faults>>

\* collect.py line 43: time.sleep(0.01) returns; line 27: next iteration
WakeUp ==
  /\ dpc = "asleep"
  /\ now >= wake
  /\ wake' = 0
  /\ dpc' = "loop"
  /\ UNCHANGED <<now, clicked, last_screenshot_time, images, text, current_time,
                 screenshot_path, wfd, lpc, cur, presses, captures, call,
                 reports, others, faults>>

\* collect.py line 43: time.sleep(0.01) returns after the end of the observed
\* run, when the clock of the model no longer advances
WakeUpLate ==
  /\ dpc = "asleep"
  /\ now < wake /\ ClockStopped(now)
  /\ wake' = 0
  /\ dpc' = "loop"
  /\ UNCHANGED <<now, clicked, last_screenshot_time, images, text, current_time,
                 screenshot_path, wfd, lpc, cur, presses, captures, call,
                 reports, others, faults>>

\* ------------------------------------------- listener thread: _on_click
\* history: a press set the flag
MarkPress(c) == [c EXCEPT !.hit = TRUE]

\* _on_click lines 57-72: a button event is delivered with the pointer position
OnClick ==
  /\ Running
  /\ lpc = "idle"
  /\ \E button \in {"left", "right"}, pressed \in BOOLEAN, pos \in Positions(presses + 1) :
       /\ clicked' = FlagAfterEvent(button, pressed, clicked)
       /\ others' = ~(button = "left" /\ pressed)
       /\ IF IsLeftPress(button, pressed)
          THEN /\ presses < MaxClicks
               /\ presses' = presses + 1
               /\ cur' = [NoPress EXCEPT !.x = pos[1], !.y = pos[2],
                            !.ts = now, !.end = "running",
                            !.prevMoved = (cur.rename = "ok"),
                            !.quiet = (presses > 0 /\ ~cur.cap),
                            !.btw = (presses = 0 /\ captures = 1 /\ wfd = 0
                                     /\ screenshot_path # None),
                            !.nfound = cur.nfound]
               /\ call' = MarkPress(call)
               /\ lpc' = "exists"
          ELSE UNCHANGED <<cur, presses, call, lpc>>
  /\ UNCHANGED <<now, last_screenshot_time, images, text, dpc, current_time,
                 screenshot_path, wfd, wake, captures, reports, faults>>

\* a variant of line 76: the rename is attempted without the existence check
ExistsCheckSkipped ==
  /\ Running
  /\ lpc = "exists"
  /\ LET found == Exists(images, generic_screenshot_path) IN
       /\ cur' = [cur EXCEPT !.found = IF found THEN "yes" ELSE "no",
                              !.nfound = IF found THEN @ + 1 ELSE @]
       /\ lpc' = "rename"
  /\ UNCHANGED <<now, clicked, last_screenshot_time, images, text, dpc,
                 current_time, screenshot_path, wfd, wake, presses, captures,
                 call, reports, others, faults>>

\* _on_click line 76: if os.path.exists(generic_screenshot_path)
ExistsCheck ==
  /\ Running
  /\ lpc = "exists"
  /\ LET found == Exists(images, generic_screenshot_path) IN
       /\ cur' = [cur EXCEPT !.found = IF found THEN "yes" ELSE "no",
                              !.nfound = IF found THEN @ + 1 ELSE @]
       /\ lpc' = IF found THEN "rename" ELSE "save_none"
  /\ UNCHANGED <<now, clicked, last_screenshot_time, images, text, dpc,
                 current_time, screenshot_path, wfd, wake, presses, captures,
                 call, reports, others, faults>>

\* _on_click lines 78, 81-83: os.rename succeeds, or raises OSError
RenameStep ==
  /\ Running
  /\ lpc = "rename"
  /\ \E ok \in BOOLEAN :
       /\ IF ok THEN Exists(images, generic_screenshot_path) /\ UNCHANGED faults
                ELSE Fail
       /\ images' = IF ok THEN Rename(images, generic_screenshot_path,
                                      new_screenshot_path(cur.ts))
                          ELSE images
       /\ cur' = [cur EXCEPT
            !.rename = IF ok THEN "ok" ELSE "failed",
            !.moved = IF ok THEN images[generic_screenshot_path].id ELSE 0]
       /\ lpc' = IF ok THEN "save_new" ELSE "save_generic"
  /\ UNCHANGED <<now, clicked, last_screenshot_time, text, dpc, current_time,
                 screenshot_path, wfd, wake, presses, captures, call, reports,
                 others>>

\* a variant of line 84: the fallback passes new_screenshot_path
SaveArgAlwaysNew(pc, ts) ==
  CASE pc \in {"save_new", "save_generic"} -> new_screenshot_path(ts)
    [] OTHER -> NoArg

\* a variant of line 87: the no-file branch passes new_screenshot_path
SaveArgNewWhenNone(pc, ts) ==
  CASE pc \in {"save_new", "save_none"} -> new_screenshot_path(ts)
    [] pc = "save_generic" -> generic_screenshot_path
    [] OTHER -> NoArg

\* the third argument of the save_click_data call at lines 80, 84, 87
SaveArg(pc, ts) ==
  CASE pc = "save_new" -> new_screenshot_path(ts)
    [] pc = "save_generic" -> generic_screenshot_path
    [] OTHER -> NoArg

\* what is left of a record file whose write failed after open(output_file, "w")
Truncated == [url |-> None, label |-> ""]

\* a variant: an exception that leaves the callback ends the process
EndCallbackExits(c, exc) ==
  /\ cur' = [c EXCEPT !.end = IF exc = "" THEN "returned" ELSE exc]
  /\ IF exc = "" THEN lpc' = "idle" ELSE lpc' \in {"idle", "stopped"}
  /\ dpc' = IF exc = "" THEN dpc ELSE "crashed"

\* the callback ends: it returned, or an exception left it.  What the input
\* library does with its thread after an exception is not in this repository:
\* the thread either goes on delivering events or ends.  The listener is a
\* thread of its own (computer.py lines 45-47) and main() never joins it: an
\* exception in the callback leaves the polling thread where it is
EndCallback(c, exc) ==
  /\ cur' = [c EXCEPT !.end = IF exc = "" THEN "returned" ELSE exc]
  /\ IF exc = "" THEN lpc' = "idle" ELSE lpc' \in {"idle", "stopped"}
  /\ dpc' = dpc

\* _on_click lines 80, 84, 87 and save_click_data lines 89-117
SaveClickData ==
  /\ Running
  /\ lpc \in {"save_new", "save_generic", "save_none"}
  /\ LET path == SaveArg(lpc, cur.ts) IN
     IF path = NoArg
     THEN \* line 87 passes two arguments to a function of three: TypeError
          /\ EndCallback(cur, "TypeError")
          /\ UNCHANGED <<text, faults>>
     ELSE \E ok \in BOOLEAN, opened \in BOOLEAN :
          IF ok
          THEN /\ opened
               /\ UNCHANGED faults
               /\ text' = WriteFile(text, now, Example(cur.x, cur.y, path))
               /\ EndCallback([cur EXCEPT !.recs = @ + 1, !.rec = text'[now],
                                          !.file = now], "")
          ELSE /\ Fail
               /\ text' = IF opened THEN WriteFile(text, now, Truncated) ELSE text
               /\ IF lpc = "save_new"
                  THEN \* line 80 is inside the try: except OSError, line 81
                       /\ cur' = [cur EXCEPT !.werr = @ + 1]
                       /\ lpc' = "save_generic"
                       /\ UNCHANGED dpc
                  ELSE EndCallback([cur EXCEPT !.werr = @ + 1], "OSError")
  /\ UNCHANGED <<now, clicked, last_screenshot_time, images, current_time,
                 screenshot_path, wfd, wake, presses, captures, call, reports,
                 others>>

Next ==
  \/ Tick
  \/ LoopTop \/ ShouldTake \/ CaptureOpen \/ CaptureDone \/ CaptureFail
  \/ WasClickedRead \/ WasClickedClear \/ Report \/ Sleep \/ WakeUp
  \/ OnClick \/ ExistsCheck \/ RenameStep \/ SaveClickData

Spec == Init /\ [][Next]_vars

\* the polling thread: one step of main()
Driver ==
  \/ LoopTop \/ ShouldTake \/ CaptureOpen \/ CaptureDone \/ CaptureFail
  \/ WasClickedRead \/ WasClickedClear \/ Report \/ Sleep \/ WakeUp

\* the run followed without end: the polling loop goes on after the end of the
\* observed time
FairNext ==
  \/ Tick
  \/ LoopTop \/ ShouldTake \/ CaptureOpen \/ CaptureDone \/ CaptureFail
  \/ WasClickedRead \/ WasClickedClear \/ Report \/ Sleep \/ WakeUp
  \/ WakeUpLate
  \/ OnClick \/ ExistsCheck \/ RenameStep \/ SaveClickData

\* the polling loop keeps running (while True, collect.py line 27) and the
\* clock advances
FairSpec ==
  Init /\ [][FairNext]_vars /\ WF_vars(Tick) /\ WF_vars(Driver \/ WakeUpLate)

\* ------------------------------------------------------------------ claims
\* the callback of the press on record has ended (returned or raised)
Handled == cur.end \notin {"none", "running"}

\* the record the press on record wrote is in data/text
RecordOnDisk == cur.file \in DOMAIN text /\ text[cur.file] = cur.rec

\* the label "x,y" of the coordinates passed to the callback
CoordText == ToString(cur.x) \o "," \o ToString(cur.y)

\* C1: a left-button press that finds no screenshot.jpg still writes an
\* example record, and the record's assistant label is the click's "x,y".
C1_NoAssetStillWritesRecord ==
  (Handled /\ cur.found = "no") =>
     (cur.recs = 1 /\ cur.rec.label = CoordText /\ RecordOnDisk)

\* C2: of two presses in succession with no capture in between, the first
\* having found and moved screenshot.jpg, the second attempts the rename, the
\* rename fails, and the second writes a record whose image reference is
\* screenshot.jpg.
C2_SecondPressFallsBack ==
  (Handled /\ cur.prevMoved /\ cur.quiet) =>
     (cur.rename = "failed" /\ cur.recs = 1
      /\ cur.rec.url = generic_screenshot_path)

\* the image that the press on record renamed is at the timestamped path and
\* not at the generic path
AssetMoved ==
  /\ cur.moved # 0
  /\ Exists(images, new_screenshot_path(cur.ts))
  /\ images[new_screenshot_path(cur.ts)].id = cur.moved
  /\ ~(Exists(images, generic_screenshot_path)
       /\ images[generic_screenshot_path].id = cur.moved)

\* the press on record wrote one record, and its image reference is the
\* timestamped path
RecordNamesNewPath ==
  cur.recs = 1 /\ cur.rec.url = new_screenshot_path(cur.ts) /\ RecordOnDisk

\* C3 as stated: if screenshot.jpg exists when a press is handled, then when
\* the callback finishes the asset is no longer at the generic path, it is at
\* the timestamped path, and the record's image reference is that path.
C3_AsStated ==
  (Handled /\ cur.found = "yes") => (AssetMoved /\ RecordNamesNewPath)

\* C3 amended: the same, when os.rename and the record write both succeed.
C3_MovedWhenRenameAndWriteSucceed ==
  (Handled /\ cur.found = "yes" /\ cur.rename = "ok" /\ cur.werr = 0) =>
     (cur.end = "returned" /\ AssetMoved /\ RecordNamesNewPath)

\* a press found screenshot.jpg, renamed it and wrote its record, while a
\* capture has since written a new screenshot.jpg
C3_Witness ==
  /\ Handled /\ cur.found = "yes" /\ cur.rename = "ok" /\ cur.werr = 0
  /\ cur.recs = 1
  /\ Exists(images, generic_screenshot_path)

\* C4: was_clicked behaves as an atomic read-and-clear of the flag under every
\* interleaving with _on_click: a call that returns True clears the flag at an
\* instant at which the flag is True, a call that returns False reads it at an
\* instant at which it is False and leaves it so.
C4_AtomicReadAndClear ==
  [][ /\ (dpc = "clear" /\ dpc' # dpc) =>
           (call.ret = TRUE /\ clicked = TRUE /\ clicked' = FALSE)
      /\ (dpc = "was_clicked" /\ dpc' = "sleep") =>
           (call'.ret = FALSE /\ clicked = FALSE /\ clicked' = FALSE)
      /\ (dpc = "was_clicked" /\ dpc' = "clear") =>
           (call'.ret = TRUE /\ clicked = TRUE) ]_vars

\* a press set the flag between the read at line 125 and the clear at line 126
C4_Witness == dpc = "report" /\ call.ret /\ call.hit /\ ~clicked

\* C5: with the flag set and no press in between, two consecutive calls of
\* was_clicked return True and then False.
C5_TrueThenFalse ==
  (dpc # "clear" /\ call.pflag /\ call.pquiet /\ ~call.hit) =>
     (call.pret = TRUE /\ call.ret = FALSE)

\* the second of two such calls has returned
C5_Witness ==
  dpc = "sleep" /\ call.pflag /\ call.pquiet /\ ~call.hit /\ ~call.ret

\* C6: should_take_screenshot(now) is true iff now - last_screenshot_time >=
\* screenshot_interval (false within the interval after a capture, true from
\* the interval on), and it changes no controller state.
C6_DueIffIntervalElapsed ==
  [][ (dpc = "should" /\ dpc' # dpc) =>
        /\ (dpc' = "capture") <=> (current_time - last_screenshot_time >= screenshot_interval)
        /\ dpc' \in {"capture", "was_clicked"}
        /\ UNCHANGED <<clicked, last_screenshot_time, images, text>> ]_vars

\* after a capture marked at now1, should_take_screenshot(now2) was false for
\* now1 < now2 < now1 + interval
C6_Witness ==
  /\ dpc = "was_clicked"
  /\ last_screenshot_time >= StartTime
  /\ current_time > last_screenshot_time
  /\ current_time - last_screenshot_time < screenshot_interval

\* C7: a record-write error in save_click_data propagates out of _on_click in
\* every branch, and no second record write is attempted after it.
C7_WriteErrorPropagates ==
  (cur.werr > 0) =>
     (cur.end = "OSError" /\ cur.werr = 1 /\ lpc \in {"idle", "stopped"})

\* the record of the fallback: image reference screenshot.jpg, label "x,y"
FallbackRecord ==
  /\ cur.recs = 1
  /\ cur.rec = [url |-> generic_screenshot_path, label |-> CoordText]
  /\ RecordOnDisk

\* C8 as stated: when screenshot.jpg exists and os.rename raises, the callback
\* does not abort and writes exactly one record, with image reference
\* screenshot.jpg and the click's coordinates as label.
C8_AsStated ==
  (Handled /\ cur.found = "yes" /\ cur.rename = "failed") =>
     (cur.end = "returned" /\ FallbackRecord)

\* C8 amended: when os.rename raises, the callback goes on to one write of
\* that record; the record is written unless that write raises too, and then
\* the error leaves the callback and the click has no record.
C8_FallbackAfterRenameError ==
  (cur.rename = "failed") =>
     \/ cur.end = "running" /\ lpc = "save_generic" /\ cur.recs = 0
                            /\ cur.werr = 0
     \/ cur.end = "returned" /\ cur.werr = 0 /\ FallbackRecord
     \/ cur.end = "OSError" /\ cur.werr = 1 /\ cur.recs = 0

\* os.rename raised and the press wrote its fallback record
C8_Witness ==
  Handled /\ cur.found = "yes" /\ cur.rename = "failed" /\ cur.recs = 1

\* C9: a failure inside take_screenshot does not stop the polling loop:
\* take_screenshot returns None and main goes on to the was_clicked check.
C9_CaptureFailureContained ==
  [][ (dpc \in {"capture", "saving"} /\ dpc' # dpc /\ faults' # faults) =>
        (screenshot_path' = None /\ dpc' = "was_clicked") ]_vars

\* no capture has succeeded, and the loop has started another iteration
C9_Witness ==
  /\ dpc = "should" /\ current_time > StartTime
  /\ last_screenshot_time = 0 /\ screenshot_path = None /\ faults > 0

\* C10: every example record written has the label "x,y" of the (x, y) that
\* was passed to the callback of the press that wrote it.
C10_LabelIsEventCoordinates ==
  /\ (cur.recs > 0) => (cur.rec.label = CoordText /\ RecordOnDisk)
  /\ \A f \in DOMAIN text :
       \/ text[f].url = None
       \/ \E k \in 1..presses : \E pos \in Positions(k) :
            text[f].label = ToString(pos[1]) \o "," \o ToString(pos[2])

\* the second press wrote a record
C10_Witness == presses = 2 /\ cur.recs = 1 /\ Handled

\* the timestamped screenshot files in data/images
TimestampedAssets(fs) == {p \in DOMAIN fs : p[1] = "screenshot_.jpg"}

\* C11: record file names and timestamped asset names are unique per click:
\* an example record or a timestamped asset, once written, is never
\* overwritten or removed by a later capture or click.
C11_WrittenOnceNeverReplaced ==
  [][ /\ \A f \in DOMAIN text :
           (text[f] # Truncated) => (f \in DOMAIN text' /\ text'[f] = text[f])
      /\ \A p \in TimestampedAssets(images) :
           p \in DOMAIN images' /\ images'[p].id = images[p].id ]_vars

\* the first press came after the first capture had succeeded, its callback
\* ran with no capture under way, nothing failed and no other press followed
SinglePressBetweenCaptures ==
  cur.btw /\ presses = 1 /\ faults = 0 /\ Handled

C13_MarkedOnlyOnSuccess ==
  [][ /\ (last_screenshot_time' # last_screenshot_time) =>
           /\ dpc = "saving" /\ screenshot_path' # None
           /\ last_screenshot_time' = current_time
      /\ (dpc = "saving" /\ dpc' = "was_clicked" /\ screenshot_path' # None) =>
           last_screenshot_time' = current_time
      /\ (dpc \in {"capture", "saving"} /\ dpc' = "was_clicked"
          /\ screenshot_path' = None) =>
           last_screenshot_time' = last_screenshot_time
      /\ (dpc = "should" /\ dpc' # dpc /\ screenshot_path = None) =>
           dpc' = "capture" ]_vars

\* the first capture failed while writing, and the next iteration, less than
\* an interval later, is about to capture again
C13_Witness ==
  /\ dpc = "capture" /\ captures = 1 /\ screenshot_path = None
  /\ last_screenshot_time = 0
  /\ current_time > StartTime /\ current_time < StartTime + screenshot_interval

\* C14: as long as the polling loop keeps running, every left-button press
\* handled by the callback is eventually followed by a was_clicked call that
\* returns True and by a click notification: each press sets the flag, a set
\* flag is eventually consumed by a call that returns True, and a call that
\* returned True is followed by one notification.
C14_PressEventuallyReported ==
  /\ [][ /\ (presses' # presses) => clicked'
         /\ (dpc = "report" /\ dpc' # dpc) => reports' = reports + 1 ]_vars
  /\ clicked ~> (~clicked /\ dpc = "report" /\ call.ret)
  /\ (dpc = "report") ~> (dpc = "sleep")

\* two presses were consumed by one call of was_clicked and share one
\* notification
C14_Witness ==
  presses = 2 /\ reports = 1 /\ ~clicked /\ dpc = "asleep" /\ lpc = "idle"

\* a timestamped file appears, or a timestamped name gets another file
TimestampedAssetCreated ==
  \E p \in TimestampedAssets(images') :
     p \notin DOMAIN images \/ images'[p].id # images[p].id

\* C15: every timestamped screenshot file was created by the rename step of a
\* left-button press that found screenshot.jpg present; no capture and no
\* press that found none creates one, and there are never more timestamped
\* files than such presses.
C15_TimestampedOnlyFromRename ==
  /\ [](Cardinality(TimestampedAssets(images)) <= cur.nfound)
  /\ [][ TimestampedAssetCreated =>
           /\ lpc = "rename" /\ cur.found = "yes"
           /\ TimestampedAssets(images') =
                TimestampedAssets(images) \cup {new_screenshot_path(cur.ts)}
           /\ images'[new_screenshot_path(cur.ts)].id =
                images[generic_screenshot_path].id ]_vars

\* of two presses the first found screenshot.jpg and renamed it, the second
\* found none: one timestamped file
C15_Witness ==
  /\ presses = 2 /\ Handled /\ cur.found = "no" /\ cur.nfound = 1
  /\ Cardinality(TimestampedAssets(images)) = 1 /\ captures >= 1

C17_OtherEventsChangeNothing ==
  [][ (others' /\ ~others) =>
        /\ UNCHANGED <<clicked, images, text>>
        /\ UNCHANGED <<lpc, cur, presses>> ]_vars

\* a release or another button's event came after the first press, with the
\* flag of that press still pending, its record written and a screenshot.jpg
\* on disk
C17_Witness ==
  /\ others /\ presses = 1 /\ clicked /\ lpc = "idle"
  /\ cur.recs = 1 /\ Exists(images, generic_screenshot_path)

\* C18: the driver never reports a click that did not happen: the number of
\* was_clicked calls that returned True, and so the number of notifications
\* printed, is at most the number of left-button presses handled so far.
C18_NoPhantomReport ==
  reports + (IF dpc = "report" THEN 1 ELSE 0) <= presses

\* was_clicked returned True for the first time after two presses, the second
\* of which came between the read of line 125 and the clear of line 126
C18_Witness ==
  presses = 2 /\ reports = 0 /\ dpc = "report" /\ call.hit /\ ~clicked

\* C19: the file a click renames is always a screenshot that a capture
\* finished writing: under every interleaving of take_screenshot's write of
\* screenshot.jpg with the exists-check and the rename, the file moved to the
\* timestamped path is complete at the time of the rename.
C19_RenamedAssetComplete ==
  [][ (lpc = "rename" /\ lpc' = "save_new") =>
        images[generic_screenshot_path].complete ]_vars

\* the example records whose image reference is a timestamped path
TimestampedRecords == {f \in DOMAIN text : text[f].url[1] = "screenshot_.jpg"}

\* C20: every example record whose image reference is a timestamped path
\* names a file that exists on disk: the record is written only after the
\* rename to that path succeeded, and nothing later removes the file.
C20_TimestampedRecordNamesFile ==
  /\ [](\A f \in TimestampedRecords : Exists(images, text[f].url))
  /\ [][ \A p \in TimestampedAssets(images) : Exists(images', p) ]_vars

\* the first press wrote a record that names its timestamped file; since then
\* a second capture and a second press, which renamed nothing, have come
C20_Witness ==
  /\ presses = 2 /\ Handled /\ cur.rename # "ok" /\ captures >= 2
  /\ TimestampedRecords # {}
====
